---- MODULE Spec2Model ----
(***************************************************************************)
(* A model of the user-management API of messy-migration/app.py: the       *)
(* users table (SQLite), and the handlers get_all_users, get_user,         *)
(* create_user, update_user, delete_user, search_users and login, each     *)
(* translated from its code.                                               *)
(*                                                                         *)
(* Text values: names and passwords are TLA+ strings (only equality,       *)
(* emptiness and length are used on them); an email is a sequence of       *)
(* one-character strings, so that validate_email can be computed as the    *)
(* regular expression of the code computes it, and so is a search query,   *)
(* which LIKE matches against the spelling of a name.  A JSON object is a  *)
(* record whose DOMAIN is the set of keys present; the empty object {} is  *)
(* <<>>.                                                                   *)
(***************************************************************************)
EXTENDS Integers, Sequences, FiniteSets, TLC

VARIABLES
    users,      \* the table: a function from the ids of the stored rows to rows
    seq,        \* sqlite_sequence of the table: the largest id ever assigned
    request,    \* the request answered last: [op, id, data]
    response,   \* its response: [status, body]
    served,     \* the parity of the number of requests answered so far
    pending     \* per worker: the update between its SELECT and its UPDATE

vars == <<users, seq, request, response, served, pending>>

-----------------------------------------------------------------------------
(* Bounds and input domains *)

\* AUTOINCREMENT is capped: no insert is attempted once seq = MaxId.
MaxId == 2

\* The ids a URL may carry: every id that can be assigned, and one that never is.
UrlIds == 1 .. (MaxId + 1)

Names == {"John Doe", "Updated Name"}

JohnEmail == <<"j","o","h","n","@","e","x",".","c","o","m">>
JaneEmail == <<"j","a","n","e","@","e","x",".","c","o","m">>
BadEmail  == <<"j","o","h","n",".","c","o","m">>
NoEmail   == <<>>

\* "passwor" has 7 characters, the other two have 8 and 9.
Passwords == {"passwor", "password", "secret456"}

\* Salts drawn by generate_password_hash.
Salts == {"s1"}

NameValues     == Names \cup {""}
EmailValues    == {JohnEmail, JaneEmail, BadEmail, NoEmail}
PasswordValues == Passwords \cup {""}

\* JSON objects a client may POST to /users: every subset of the keys name,
\* email, password, each with every value; {} ; and an object with another key.
CreateBodies ==
    {<<>>} \cup [role : {"admin"}]
    \cup [name : NameValues] \cup [email : EmailValues] \cup [password : PasswordValues]
    \cup [name : NameValues, email : EmailValues]
    \cup [name : NameValues, password : PasswordValues]
    \cup [email : EmailValues, password : PasswordValues]
    \cup [name : NameValues, email : EmailValues, password : PasswordValues]

\* JSON objects a client may PUT to /user/<id>.
UpdateBodies ==
    {<<>>} \cup [role : {"admin"}]
    \cup [name : NameValues] \cup [email : EmailValues]
    \cup [name : NameValues, email : EmailValues]

\* JSON objects a client may POST to /login.
LoginBodies ==
    {<<>>}
    \cup [email : EmailValues] \cup [password : PasswordValues]
    \cup [email : EmailValues, password : PasswordValues]

\* The name parameter of GET /search: upper and lower case, a LIKE wildcard,
\* a query no name contains, and the empty string.
SearchQueries ==
    {<<"d","O","E">>, <<"n">>, <<"z">>, <<"_","o","e">>, <<>>}

\* str(e) of the exception a statement raises when the store cannot run it.
StoreErrors == {"database is locked", "no such table: users"}

Workers == {"w1", "w2"}

Idle == <<>>

-----------------------------------------------------------------------------
(* Python and JSON helpers *)

\* Python's None (SQL NULL), one per type of value: as a name or a password,
\* as an email, and as a password hash.
None      == "None"
NoneEmail == <<"None">>
NoneHash  == [method |-> "None", salt |-> "None", digest |-> <<>>]

\* data.get('name'), data.get('email'), data.get('password')
GetName(data)     == IF "name" \in DOMAIN data THEN data.name ELSE None
GetEmail(data)    == IF "email" \in DOMAIN data THEN data.email ELSE NoneEmail
GetPassword(data) == IF "password" \in DOMAIN data THEN data.password ELSE None

\* `not name`, `not email`, `not password`: None or the empty string.
NoName(data)     == GetName(data) \in {None, ""}
NoEmailIn(data)  == GetEmail(data) \in {NoneEmail, NoEmail}
NoPassword(data) == GetPassword(data) \in {None, ""}

Lower  == {"a","b","c","d","e","f","g","h","i","j","k","l","m",
           "n","o","p","q","r","s","t","u","v","w","x","y","z"}
Upper  == {"A","B","C","D","E","F","G","H","I","J","K","L","M",
           "N","O","P","Q","R","S","T","U","V","W","X","Y","Z"}
Digit  == {"0","1","2","3","4","5","6","7","8","9"}
Letter == Lower \cup Upper

LocalChars  == Letter \cup Digit \cup {".", "_", "%", "+", "-"}
DomainChars == Letter \cup Digit \cup {".", "-"}

AllIn(s, from, to, chars) == \A k \in from .. to : s[k] \in chars

\* re.match(r"^[a-zA-Z0-9._%+-]+@[a-zA-Z0-9.-]+\.[a-zA-Z]{2,}$", email):
\* `$` also matches just before a trailing newline.
validate_email(email) ==
    \E end \in {Len(email)} \cup
               {n \in {Len(email) - 1} : n >= 0 /\ email[n + 1] = "\n"} :
      \E at \in 2 .. end, dot \in 3 .. end :
        /\ email[at] = "@"
        /\ AllIn(email, 1, at - 1, LocalChars)
        /\ at + 1 <= dot - 1
        /\ AllIn(email, at + 1, dot - 1, DomainChars)
        /\ email[dot] = "."
        /\ end - dot >= 2
        /\ AllIn(email, dot + 1, end, Letter)

\* The characters of a name.
Spelling(name) ==
    CASE name = "John Doe"     -> <<"J","o","h","n"," ","D","o","e">>
      [] name = "Updated Name" -> <<"U","p","d","a","t","e","d"," ","N","a","m","e">>
      [] name = ""             -> <<>>

UpperSeq == <<"A","B","C","D","E","F","G","H","I","J","K","L","M",
              "N","O","P","Q","R","S","T","U","V","W","X","Y","Z">>
LowerSeq == <<"a","b","c","d","e","f","g","h","i","j","k","l","m",
              "n","o","p","q","r","s","t","u","v","w","x","y","z">>

\* SQLite's LIKE compares ASCII letters without regard to case.
Fold(c) ==
    IF c \in Upper
    THEN LowerSeq[CHOOSE k \in 1 .. 26 : UpperSeq[k] = c]
    ELSE c

\* pattern[i ..] LIKE text[j ..]: % matches any run of characters, _ any one.
RECURSIVE LikeFrom(_, _, _, _)
LikeFrom(pattern, text, i, j) ==
    IF i > Len(pattern)
    THEN j > Len(text)
    ELSE IF pattern[i] = "%"
    THEN \E k \in j .. (Len(text) + 1) : LikeFrom(pattern, text, i + 1, k)
    ELSE /\ j <= Len(text)
         /\ (pattern[i] = "_" \/ Fold(pattern[i]) = Fold(text[j]))
         /\ LikeFrom(pattern, text, i + 1, j + 1)

\* text LIKE pattern
Like(text, pattern) == LikeFrom(pattern, text, 1, 1)

MIN_PASSWORD_LENGTH == 8

\* validate_password_strength with `<=` for `<`.
validate_password_strength_at_most(password) ==
    IF Len(password) <= MIN_PASSWORD_LENGTH
    THEN [ok |-> FALSE, msg |-> "Password must be at least 8 characters long."]
    ELSE [ok |-> TRUE, msg |-> ""]

validate_password_strength(password) ==
    IF Len(password) < MIN_PASSWORD_LENGTH
    THEN [ok |-> FALSE, msg |-> "Password must be at least 8 characters long."]
    ELSE [ok |-> TRUE, msg |-> ""]

\* werkzeug's salted one-way hash, kept abstract: the digest is an injective
\* function of salt and password.
Digest(salt, password) == <<salt, password>>

generate_password_hash(password, salt) ==
    [method |-> "scrypt", salt |-> salt, digest |-> Digest(salt, password)]

check_password_hash(pwhash, password) ==
    pwhash.digest = Digest(pwhash.salt, password)


-----------------------------------------------------------------------------
(* The users table: id INTEGER PRIMARY KEY AUTOINCREMENT, name TEXT NOT NULL, *)
(* email TEXT NOT NULL UNIQUE, password TEXT NOT NULL                         *)

Max(S) == CHOOSE m \in S : \A n \in S : n <= m

\* The UNIQUE constraint on email, compared byte for byte (BINARY collation):
\* some row other than those in `except` holds the email.
EmailTaken(tbl, email, except) ==
    \E i \in DOMAIN tbl \ except : tbl[i].email = email

\* The NOT NULL constraints.
NullColumn(row) ==
    row.name = None \/ row.email = NoneEmail \/ row.password = NoneHash

\* INTEGER PRIMARY KEY without AUTOINCREMENT: one more than the largest id the
\* table holds now.
NextRowId_max_rowid(tbl, s) == Max(DOMAIN tbl \cup {0}) + 1

\* AUTOINCREMENT: one more than the largest id the table ever held.
NextRowId(tbl, s) == Max(DOMAIN tbl \cup {s}) + 1

\* Insert as INSERT OR REPLACE would do it: the row holding the email goes and
\* the new row takes a new id.
Insert_or_replace(tbl, s, row) ==
    LET id   == NextRowId(tbl, s)
        kept == {i \in DOMAIN tbl : tbl[i].email # row.email}
    IN  [ok |-> TRUE, users |-> (id :> row) @@ [i \in kept |-> tbl[i]],
         seq |-> id, lastrowid |-> id]

\* Insert into a table whose email column is not UNIQUE.
Insert_not_unique(tbl, s, row) ==
    IF NullColumn(row)
    THEN [ok |-> FALSE, users |-> tbl, seq |-> s, lastrowid |-> 0]
    ELSE LET id == NextRowId(tbl, s)
         IN  [ok |-> TRUE, users |-> (id :> row) @@ tbl, seq |-> id, lastrowid |-> id]

\* INSERT INTO users (name, email, password) VALUES (?, ?, ?) and commit.
\* A constraint failure (ok = FALSE, sqlite3.IntegrityError) changes nothing,
\* sqlite_sequence included.
Insert(tbl, s, row) ==
    IF NullColumn(row) \/ EmailTaken(tbl, row.email, {})
    THEN [ok |-> FALSE, users |-> tbl, seq |-> s, lastrowid |-> 0]
    ELSE LET id == NextRowId(tbl, s)
         IN  [ok |-> TRUE, users |-> (id :> row) @@ tbl, seq |-> id, lastrowid |-> id]

\* SetColumns that sets the column of every key the body has, empty or not.
SetColumns_every_key(row, data) ==
    [name     |-> IF "name" \in DOMAIN data THEN data.name ELSE row.name,
     email    |-> IF "email" \in DOMAIN data THEN data.email ELSE row.email,
     password |-> row.password]

\* The row with the columns the UPDATE statement sets: name when a truthy name
\* was sent, email when a truthy email was sent.
SetColumns(row, data) ==
    [name     |-> IF NoName(data) THEN row.name ELSE GetName(data),
     email    |-> IF NoEmailIn(data) THEN row.email ELSE GetEmail(data),
     password |-> row.password]

\* Update on a table whose email column is not UNIQUE.
Update_unchecked(tbl, id, data) ==
    IF id \notin DOMAIN tbl
    THEN [ok |-> TRUE, users |-> tbl, rowcount |-> 0]
    ELSE [ok |-> TRUE, users |-> [tbl EXCEPT ![id] = SetColumns(tbl[id], data)],
          rowcount |-> 1]

\* UPDATE users SET ... WHERE id = ? and commit.  rowcount is the number of
\* rows matched, whether or not a value changed.
Update(tbl, id, data) ==
    IF id \notin DOMAIN tbl
    THEN [ok |-> TRUE, users |-> tbl, rowcount |-> 0]
    ELSE IF \/ NullColumn(SetColumns(tbl[id], data))
            \/ EmailTaken(tbl, SetColumns(tbl[id], data).email, {id})
    THEN [ok |-> FALSE, users |-> tbl, rowcount |-> 0]
    ELSE [ok |-> TRUE, users |-> [tbl EXCEPT ![id] = SetColumns(tbl[id], data)],
          rowcount |-> 1]

\* DELETE FROM users WHERE id = ? and commit.
Delete(tbl, id) ==
    IF id \in DOMAIN tbl
    THEN [users |-> [i \in DOMAIN tbl \ {id} |-> tbl[i]], rowcount |-> 1]
    ELSE [users |-> tbl, rowcount |-> 0]

-----------------------------------------------------------------------------
(* Responses *)

Error(kind, message) == [error |-> kind, message |-> message]

NotFoundBody == [message |-> "User not found"]

EmptyBody == <<>>

\* What a handler returns: the table after it, and the response.
Reply(tbl, s, status, body) ==
    [users |-> tbl, seq |-> s, response |-> [status |-> status, body |-> body]]

-----------------------------------------------------------------------------
(* The handlers *)

\* POST /users
create_user(data, salt, tbl, s) ==
    IF DOMAIN data = {}
    THEN Reply(tbl, s, 400, Error("Invalid JSON", "Request body must be valid JSON."))
    ELSE IF NoName(data) \/ NoEmailIn(data) \/ NoPassword(data)
    THEN Reply(tbl, s, 400,
               Error("Missing Data", "Name, email, and password are required."))
    ELSE IF ~validate_email(GetEmail(data))
    THEN Reply(tbl, s, 400,
               Error("Invalid Email", "Please provide a valid email address."))
    ELSE IF ~validate_password_strength(GetPassword(data)).ok
    THEN Reply(tbl, s, 400,
               Error("Weak Password", validate_password_strength(GetPassword(data)).msg))
    ELSE LET ins == Insert(tbl, s,
                           [name     |-> GetName(data),
                            email    |-> GetEmail(data),
                            password |-> generate_password_hash(GetPassword(data), salt)])
         IN  IF ins.ok
             THEN Reply(ins.users, ins.seq, 201,
                        [message |-> "User created successfully!", id |-> ins.lastrowid])
             ELSE Reply(tbl, s, 409,
                        Error("Conflict", "User with this email already exists."))

\* get_user with SELECT * in place of SELECT id, name, email.
get_user_select_all(id, tbl, s) ==
    IF id \in DOMAIN tbl
    THEN Reply(tbl, s, 200,
               [user |-> [id |-> id, name |-> tbl[id].name, email |-> tbl[id].email,
                          password |-> tbl[id].password]])
    ELSE Reply(tbl, s, 404, NotFoundBody)

\* GET /user/<id>: SELECT id, name, email FROM users WHERE id = ?
get_user(id, tbl, s) ==
    IF id \in DOMAIN tbl
    THEN Reply(tbl, s, 200,
               [user |-> [id |-> id, name |-> tbl[id].name, email |-> tbl[id].email]])
    ELSE Reply(tbl, s, 404, NotFoundBody)

\* update_user_check with the email format check ahead of the existence SELECT.
update_user_check_email_first(id, data, tbl, s) ==
    IF DOMAIN data = {}
    THEN [done |-> TRUE,
          reply |-> Reply(tbl, s, 400,
                          Error("Invalid JSON", "Request body must be valid JSON."))]
    ELSE IF NoName(data) /\ NoEmailIn(data)
    THEN [done |-> TRUE,
          reply |-> Reply(tbl, s, 400,
                          Error("No Data",
                                "At least 'name' or 'email' must be provided for update."))]
    ELSE IF ~NoEmailIn(data) /\ ~validate_email(GetEmail(data))
    THEN [done |-> TRUE,
          reply |-> Reply(tbl, s, 400,
                          Error("Invalid Email", "Please provide a valid email address."))]
    ELSE IF id \notin DOMAIN tbl
    THEN [done |-> TRUE, reply |-> Reply(tbl, s, 404, NotFoundBody)]
    ELSE [done |-> FALSE, reply |-> Reply(tbl, s, 0, EmptyBody)]

\* PUT /user/<id>, up to its UPDATE statement: the body checks, the existence
\* SELECT and the email format check.  done = FALSE: go on to the UPDATE.
update_user_check(id, data, tbl, s) ==
    IF DOMAIN data = {}
    THEN [done |-> TRUE,
          reply |-> Reply(tbl, s, 400,
                          Error("Invalid JSON", "Request body must be valid JSON."))]
    ELSE IF NoName(data) /\ NoEmailIn(data)
    THEN [done |-> TRUE,
          reply |-> Reply(tbl, s, 400,
                          Error("No Data",
                                "At least 'name' or 'email' must be provided for update."))]
    ELSE IF id \notin DOMAIN tbl
    THEN [done |-> TRUE, reply |-> Reply(tbl, s, 404, NotFoundBody)]
    ELSE IF ~NoEmailIn(data) /\ ~validate_email(GetEmail(data))
    THEN [done |-> TRUE,
          reply |-> Reply(tbl, s, 400,
                          Error("Invalid Email", "Please provide a valid email address."))]
    ELSE [done |-> FALSE, reply |-> Reply(tbl, s, 0, EmptyBody)]

\* update_user_exec that sets the name in a statement of its own, committed
\* before the statement that sets the email.
update_user_exec_two_statements(id, data, tbl, s) ==
    LET named == Update(tbl, id, [name |-> GetName(data)]).users
        upd   == Update(named, id, data)
    IN  IF ~upd.ok
        THEN Reply(named, s, 409,
                   Error("Conflict", "Email already in use by another user."))
        ELSE IF upd.rowcount = 0
        THEN Reply(upd.users, s, 200,
                   [message |-> "User found, but no changes were applied (data was identical or no valid fields provided)."])
        ELSE Reply(upd.users, s, 200, [message |-> "User updated successfully!"])

\* update_user_exec that does not look at rowcount.
update_user_exec_ignores_rowcount(id, data, tbl, s) ==
    LET upd == Update(tbl, id, data)
    IN  IF ~upd.ok
        THEN Reply(tbl, s, 409, Error("Conflict", "Email already in use by another user."))
        ELSE Reply(upd.users, s, 200, [message |-> "User updated successfully!"])

\* PUT /user/<id>, from its UPDATE statement on.
update_user_exec(id, data, tbl, s) ==
    LET upd == Update(tbl, id, data)
    IN  IF ~upd.ok
        THEN Reply(tbl, s, 409, Error("Conflict", "Email already in use by another user."))
        ELSE IF upd.rowcount = 0
        THEN Reply(upd.users, s, 200,
                   [message |-> "User found, but no changes were applied (data was identical or no valid fields provided)."])
        ELSE Reply(upd.users, s, 200, [message |-> "User updated successfully!"])

\* PUT /user/<id>, handled with no other request in between.
update_user(id, data, tbl, s) ==
    LET chk == update_user_check(id, data, tbl, s)
    IN  IF chk.done THEN chk.reply ELSE update_user_exec(id, data, tbl, s)

\* delete_user that does not look at rowcount.
delete_user_ignores_rowcount(id, tbl, s) ==
    Reply(Delete(tbl, id).users, s, 204, EmptyBody)

\* DELETE /user/<id>
delete_user(id, tbl, s) ==
    LET del == Delete(tbl, id)
    IN  IF del.rowcount = 0
        THEN Reply(del.users, s, 404, NotFoundBody)
        ELSE Reply(del.users, s, 204, EmptyBody)

\* login that answers an unknown email with its own 404.
login_tells_unknown_email(data, tbl, s) ==
    IF DOMAIN data = {}
    THEN Reply(tbl, s, 400, Error("Invalid JSON", "Request body must be valid JSON."))
    ELSE IF NoEmailIn(data) \/ NoPassword(data)
    THEN Reply(tbl, s, 400,
               Error("Missing Credentials", "Email and password are required."))
    ELSE LET found == {i \in DOMAIN tbl : tbl[i].email = GetEmail(data)}
         IN  IF found = {}
             THEN Reply(tbl, s, 404, NotFoundBody)
             ELSE IF check_password_hash(tbl[Max(found)].password, GetPassword(data))
             THEN Reply(tbl, s, 200,
                        [status |-> "success", message |-> "Login successful!",
                         user_id |-> Max(found)])
             ELSE Reply(tbl, s, 401,
                        [status |-> "failed", message |-> "Invalid email or password."])

\* login that does not verify the password of the row it finds.
login_no_verify(data, tbl, s) ==
    IF DOMAIN data = {}
    THEN Reply(tbl, s, 400, Error("Invalid JSON", "Request body must be valid JSON."))
    ELSE IF NoEmailIn(data) \/ NoPassword(data)
    THEN Reply(tbl, s, 400,
               Error("Missing Credentials", "Email and password are required."))
    ELSE LET found == {i \in DOMAIN tbl : tbl[i].email = GetEmail(data)}
         IN  IF found # {}
             THEN Reply(tbl, s, 200,
                        [status |-> "success", message |-> "Login successful!",
                         user_id |-> Max(found)])
             ELSE Reply(tbl, s, 401,
                        [status |-> "failed", message |-> "Invalid email or password."])

\* POST /login: SELECT id, password FROM users WHERE email = ?
login(data, tbl, s) ==
    IF DOMAIN data = {}
    THEN Reply(tbl, s, 400, Error("Invalid JSON", "Request body must be valid JSON."))
    ELSE IF NoEmailIn(data) \/ NoPassword(data)
    THEN Reply(tbl, s, 400,
               Error("Missing Credentials", "Email and password are required."))
    ELSE LET found == {i \in DOMAIN tbl : tbl[i].email = GetEmail(data)}
         IN  IF /\ found # {}
                /\ check_password_hash(tbl[Max(found)].password, GetPassword(data))
             THEN Reply(tbl, s, 200,
                        [status |-> "success", message |-> "Login successful!",
                         user_id |-> Max(found)])
             ELSE Reply(tbl, s, 401,
                        [status |-> "failed", message |-> "Invalid email or password."])

\* The rows of ids as SELECT * would return them: every column.
Project_select_all(tbl, ids) ==
    LET nth(k) == CHOOSE i \in ids : Cardinality({j \in ids : j <= i}) = k
    IN  [k \in 1 .. Cardinality(ids) |->
            [id |-> nth(k), name |-> tbl[nth(k)].name, email |-> tbl[nth(k)].email,
             password |-> tbl[nth(k)].password]]

\* SELECT id, name, email FROM users, of the rows of ids: a list in the order
\* of the ids, each row a dictionary of the three columns selected.
Project(tbl, ids) ==
    LET nth(k) == CHOOSE i \in ids : Cardinality({j \in ids : j <= i}) = k
    IN  [k \in 1 .. Cardinality(ids) |->
            [id |-> nth(k), name |-> tbl[nth(k)].name, email |-> tbl[nth(k)].email]]

\* GET /users
get_all_users(tbl, s) ==
    Reply(tbl, s, 200, [users |-> Project(tbl, DOMAIN tbl)])

\* GET /search?name=q: SELECT id, name, email FROM users WHERE name LIKE '%q%'.
\* q is NoneEmail when the URL has no name parameter.
search_users(q, tbl, s) ==
    IF q \in {NoneEmail, <<>>}
    THEN Reply(tbl, s, 400,
               Error("Missing Parameter",
                     "Please provide a 'name' query parameter to search."))
    ELSE Reply(tbl, s, 200,
               [users |-> Project(tbl, {i \in DOMAIN tbl :
                                          Like(Spelling(tbl[i].name),
                                               <<"%">> \o q \o <<"%">>)})])

-----------------------------------------------------------------------------
(* The except branches of the handlers: what each answers when a statement  *)
(* it runs on the store raises an exception e that is not a constraint      *)
(* failure.  err is str(e).  The transaction is rolled back: the table is   *)
(* as it was.                                                               *)

get_all_users_except(err, tbl, s) ==
    Reply(tbl, s, 500, [error |-> "Failed to retrieve users", details |-> err])

get_user_except(err, tbl, s) ==
    Reply(tbl, s, 500, [error |-> "Failed to retrieve user", details |-> err])

create_user_except(err, tbl, s) ==
    Reply(tbl, s, 500, Error("Database Error", "Failed to create user."))

update_user_except(err, tbl, s) ==
    Reply(tbl, s, 500, Error("Database Error", "Failed to update user."))

delete_user_except(err, tbl, s) ==
    Reply(tbl, s, 500, Error("Database Error", "Failed to delete user."))

search_users_except(err, tbl, s) ==
    Reply(tbl, s, 500, [error |-> "Failed to search users", details |-> err])

login_except(err, tbl, s) ==
    Reply(tbl, s, 500,
          Error("Internal Server Error", "An error occurred during login."))

-----------------------------------------------------------------------------
(* The state machine *)

NoRequest  == [op |-> "none", id |-> 0, data |-> <<>>]
NoResponse == [status |-> 0, body |-> EmptyBody]

\* init_db_schema: CREATE TABLE IF NOT EXISTS users; no request answered yet.
\* The table init_db.py seeds is this one after the inserts of its sample users.
Init ==
    /\ users = <<>>
    /\ seq = 0
    /\ request = NoRequest
    /\ response = NoResponse
    /\ served = 0
    /\ pending = [w \in Workers |-> Idle]

\* The handler's result r becomes the state; req is the request it answered.
\* served tells the answer to a request from the same answer to the same
\* request before it: no request is answered by a stuttering step.
Answer(req, r) ==
    /\ r.seq <= MaxId
    /\ users' = r.users
    /\ seq' = r.seq
    /\ request' = req
    /\ response' = r.response
    /\ served' = 1 - served

CreateUser(bodies) ==
    \E data \in bodies, salt \in Salts :
        /\ Answer([op |-> "create_user", id |-> 0, data |-> data],
                  create_user(data, salt, users, seq))
        /\ UNCHANGED pending

GetUser ==
    \E id \in UrlIds :
        /\ Answer([op |-> "get_user", id |-> id, data |-> <<>>],
                  get_user(id, users, seq))
        /\ UNCHANGED pending

UpdateUser(bodies) ==
    \E id \in UrlIds, data \in bodies :
        /\ Answer([op |-> "update_user", id |-> id, data |-> data],
                  update_user(id, data, users, seq))
        /\ UNCHANGED pending

DeleteUser ==
    \E id \in UrlIds :
        /\ Answer([op |-> "delete_user", id |-> id, data |-> <<>>],
                  delete_user(id, users, seq))
        /\ UNCHANGED pending

Login(bodies) ==
    \E data \in bodies :
        /\ Answer([op |-> "login", id |-> 0, data |-> data],
                  login(data, users, seq))
        /\ UNCHANGED pending

\* PUT /user/<id> on worker w, up to its UPDATE statement.  A request that is
\* answered here is answered; another waits in pending[w] for UpdateFinish.
UpdateBegin(bodies) ==
    \E w \in Workers, id \in UrlIds, data \in bodies :
        /\ pending[w] = Idle
        /\ LET chk == update_user_check(id, data, users, seq)
           IN  IF chk.done
               THEN /\ Answer([op |-> "update_user", id |-> id, data |-> data], chk.reply)
                    /\ UNCHANGED pending
               ELSE /\ pending' = [pending EXCEPT ![w] = [id |-> id, data |-> data]]
                    /\ UNCHANGED <<users, seq, request, response, served>>

\* PUT /user/<id> on worker w, from its UPDATE statement on.
UpdateFinish ==
    \E w \in Workers :
        /\ pending[w] # Idle
        /\ Answer([op |-> "update_user", id |-> pending[w].id, data |-> pending[w].data],
                  update_user_exec(pending[w].id, pending[w].data, users, seq))
        /\ pending' = [pending EXCEPT ![w] = Idle]

\* Requests handled one at a time.
Next ==
    \/ CreateUser(CreateBodies)
    \/ GetUser
    \/ UpdateUser(UpdateBodies)
    \/ DeleteUser
    \/ Login(LoginBodies)

Spec == Init /\ [][Next]_vars

\* The bodies of the concurrent runs: the valid ones, and a malformed email.
ConcCreateBodies ==
    [name : {"John Doe"}, email : {JohnEmail, JaneEmail}, password : {"password"}]

ConcUpdateBodies ==
    [name : {"Updated Name"}] \cup [email : {JohnEmail, JaneEmail, BadEmail}]
    \cup [name : {"Updated Name"}, email : {JohnEmail, JaneEmail}]

\* Requests served by concurrent workers: a statement of one request runs
\* between the SELECT and the UPDATE of an update on another worker.
NextConc ==
    \/ CreateUser(ConcCreateBodies)
    \/ UpdateBegin(ConcUpdateBodies)
    \/ UpdateFinish
    \/ DeleteUser

SpecConc == Init /\ [][NextConc]_vars

\* The bodies of the runs over every endpoint: the valid creates and one with
\* a password too short, the updates of the concurrent runs, and logins with
\* the password of the creates and with another.
AllCreateBodies ==
    ConcCreateBodies
    \cup [name : {"John Doe"}, email : {JohnEmail}, password : {"passwor"}]

AllLoginBodies ==
    {<<>>} \cup [email : {JohnEmail, JaneEmail}, password : {"password", "secret456"}]

GetAllUsers ==
    /\ Answer([op |-> "get_all_users", id |-> 0, data |-> <<>>],
              get_all_users(users, seq))
    /\ UNCHANGED pending

\* request.args is the data of a search: <<>> when the URL has no parameter.
SearchUsers ==
    \E q \in SearchQueries \cup {NoneEmail} :
        /\ Answer([op |-> "search_users", id |-> 0,
                   data |-> IF q = NoneEmail THEN <<>> ELSE [name |-> q]],
                  search_users(q, users, seq))
        /\ UNCHANGED pending

\* A request whose statement on the store raises err: the request that got as
\* far as the statement, with the error as its fault, answered by the except
\* branch of its handler.
GetAllUsersFails ==
    \E err \in StoreErrors :
        /\ Answer([op |-> "get_all_users", id |-> 0, data |-> <<>>, fault |-> err],
                  get_all_users_except(err, users, seq))
        /\ UNCHANGED pending

GetUserFails ==
    \E id \in UrlIds, err \in StoreErrors :
        /\ Answer([op |-> "get_user", id |-> id, data |-> <<>>, fault |-> err],
                  get_user_except(err, users, seq))
        /\ UNCHANGED pending

\* The INSERT is reached by the bodies that pass every check before it.
CreateUserFails(bodies) ==
    \E data \in bodies, salt \in Salts, err \in StoreErrors :
        /\ create_user(data, salt, users, seq).response.status # 400
        /\ Answer([op |-> "create_user", id |-> 0, data |-> data, fault |-> err],
                  create_user_except(err, users, seq))
        /\ UNCHANGED pending

\* The existence SELECT is reached by the bodies that pass the body checks.
UpdateUserFails(bodies) ==
    \E id \in UrlIds, data \in bodies, err \in StoreErrors :
        /\ DOMAIN data # {}
        /\ ~(NoName(data) /\ NoEmailIn(data))
        /\ Answer([op |-> "update_user", id |-> id, data |-> data, fault |-> err],
                  update_user_except(err, users, seq))
        /\ UNCHANGED pending

DeleteUserFails ==
    \E id \in UrlIds, err \in StoreErrors :
        /\ Answer([op |-> "delete_user", id |-> id, data |-> <<>>, fault |-> err],
                  delete_user_except(err, users, seq))
        /\ UNCHANGED pending

\* The SELECT is reached by the searches that carry a query.
SearchUsersFails ==
    \E q \in SearchQueries \ {<<>>}, err \in StoreErrors :
        /\ Answer([op |-> "search_users", id |-> 0, data |-> [name |-> q],
                   fault |-> err],
                  search_users_except(err, users, seq))
        /\ UNCHANGED pending

\* The SELECT is reached by the bodies that carry an email and a password.
LoginFails(bodies) ==
    \E data \in bodies, err \in StoreErrors :
        /\ DOMAIN data # {}
        /\ ~(NoEmailIn(data) \/ NoPassword(data))
        /\ Answer([op |-> "login", id |-> 0, data |-> data, fault |-> err],
                  login_except(err, users, seq))
        /\ UNCHANGED pending

\* Requests to every endpoint, handled one at a time, on a store that may
\* fail to run the statement of a request.
NextAll ==
    \/ GetAllUsers
    \/ GetUser
    \/ CreateUser(AllCreateBodies)
    \/ UpdateUser(ConcUpdateBodies)
    \/ DeleteUser
    \/ SearchUsers
    \/ Login(AllLoginBodies)
    \/ GetAllUsersFails
    \/ GetUserFails
    \/ CreateUserFails(AllCreateBodies)
    \/ UpdateUserFails(ConcUpdateBodies)
    \/ DeleteUserFails
    \/ SearchUsersFails
    \/ LoginFails(AllLoginBodies)

SpecAll == Init /\ [][NextAll]_vars

-----------------------------------------------------------------------------
(* Properties.  `request` and `response` are the exchange of the step that   *)
(* led to a state, so in a step the unprimed pair is the exchange answered   *)
(* just before and the primed pair the one answered now.                     *)

\* A create payload that passes every check of create_user.
ValidCreate(data) ==
    /\ ~NoName(data) /\ ~NoEmailIn(data) /\ ~NoPassword(data)
    /\ validate_email(GetEmail(data))
    /\ Len(GetPassword(data)) >= 8

\* The row was created with this plaintext password.
CreatedWith(row, password) ==
    \E salt \in Salts : row.password = generate_password_hash(password, salt)

RowsWithEmail(tbl, email) == {i \in DOMAIN tbl : tbl[i].email = email}

\* C1: in every state reached by create, update and delete requests, in any
\* interleaving of their statements, no two stored rows have the same email and
\* every stored row has a non-null name, email and password hash.
C1_UniqueEmailNoNulls ==
    /\ \A i, j \in DOMAIN users : i # j => users[i].email # users[j].email
    /\ \A i \in DOMAIN users :
         /\ users[i].name # None
         /\ users[i].email # NoneEmail
         /\ users[i].password # NoneHash

\* Two rows are stored and a request has just been refused for its email.
C1_Witness ==
    /\ Cardinality(DOMAIN users) = 2
    /\ response.status = 409

\* C2: a create that passes validation with the email of a stored user returns
\* 409 'Conflict' and leaves the store as it was: one row for that email, with
\* the id, name and password hash it had.
C2_DuplicateCreateConflicts ==
    [][ ( /\ request'.op = "create_user"
          /\ ValidCreate(request'.data)
          /\ RowsWithEmail(users, request'.data.email) # {} )
        => ( /\ response'.status = 409
             /\ response'.body.error = "Conflict"
             /\ Cardinality(RowsWithEmail(users', request'.data.email)) = 1
             /\ users' = users
             /\ seq' = seq ) ]_vars

\* A valid create was refused with 409 while its email is stored, under another
\* name than the one it sent.
C2_Witness ==
    /\ request.op = "create_user"
    /\ response.status = 409
    /\ \E i \in DOMAIN users :
         /\ users[i].email = request.data.email
         /\ users[i].name # request.data.name

\* C3: a create with a non-empty name, a well-formed email no stored user holds
\* and a password of 8 or more characters returns 201 with an id that is new,
\* and a get of that id answered next returns 200 with exactly the id and the
\* submitted name and email, and no password field.
C3_CreateThenGet ==
    [][ /\ ( ( /\ request'.op = "create_user"
               /\ ValidCreate(request'.data)
               /\ RowsWithEmail(users, request'.data.email) = {} )
             => ( /\ response'.status = 201
                  /\ response'.body.id \notin 1 .. seq
                  /\ response'.body.id \notin DOMAIN users
                  /\ response'.body.id \in DOMAIN users' ) )
        /\ ( ( /\ request.op = "create_user"
               /\ response.status = 201
               /\ request'.op = "get_user"
               /\ request'.id = response.body.id )
             => ( /\ response'.status = 200
                  /\ DOMAIN response'.body = {"user"}
                  /\ DOMAIN response'.body.user = {"id", "name", "email"}
                  /\ response'.body.user.id = response.body.id
                  /\ response'.body.user.name = request.data.name
                  /\ response'.body.user.email = request.data.email ) ) ]_vars

\* The user created last has been fetched by id: the answer is 200 and holds
\* the stored name and email.
C3_Witness ==
    /\ request.op = "get_user"
    /\ request.id = seq
    /\ response.status = 200
    /\ response.body.user.name = users[seq].name
    /\ response.body.user.email = users[seq].email

\* C4: an update of an existing user whose body is the empty JSON object {}
\* returns 400 with error kind 'No Data' and leaves the target row unchanged.
C4_EmptyUpdateIsNoData ==
    [][ ( /\ request'.op = "update_user"
          /\ DOMAIN request'.data = {}
          /\ request'.id \in DOMAIN users )
        => ( /\ response'.status = 400
             /\ response'.body.error = "No Data"
             /\ request'.id \in DOMAIN users'
             /\ users'[request'.id] = users[request'.id] ) ]_vars

\* C5: the delete of a stored id returns 204 with an empty body and removes
\* that row and no other; a delete of the same id answered next returns 404
\* with {"message": "User not found"} and changes nothing; a get of that id
\* answered after either delete returns 404.
C5_DeleteThenDeleteThenGet ==
    [][ /\ ( ( /\ request'.op = "delete_user"
               /\ request'.id \in DOMAIN users )
             => ( /\ response' = [status |-> 204, body |-> EmptyBody]
                  /\ DOMAIN users' = DOMAIN users \ {request'.id}
                  /\ \A i \in DOMAIN users' : users'[i] = users[i] ) )
        /\ ( ( /\ request.op = "delete_user"
               /\ response.status = 204
               /\ request'.op = "delete_user"
               /\ request'.id = request.id )
             => ( /\ response' = [status |-> 404, body |-> [message |-> "User not found"]]
                  /\ users' = users ) )
        /\ ( ( /\ request.op = "delete_user"
               /\ response.status \in {204, 404}
               /\ request'.op = "get_user"
               /\ request'.id = request.id )
             => response'.status = 404 ) ]_vars

\* A delete has been answered 404 for an id that was assigned before: the row
\* had been deleted.
C5_Witness ==
    /\ request.op = "delete_user"
    /\ request.id \in 1 .. seq
    /\ response.status = 404

\* The one response to a failed login.
InvalidCredentials ==
    [status |-> 401,
     body   |-> [status |-> "failed", message |-> "Invalid email or password."]]

\* C6: a login with a stored email and a password its row was not created with,
\* and a login with an email no stored row has, get the same response: 401
\* with {status: "failed", message: "Invalid email or password."}.
C6_FailedLoginsAlike ==
    ( /\ request.op = "login"
      /\ ~NoEmailIn(request.data)
      /\ ~NoPassword(request.data)
      /\ \/ RowsWithEmail(users, request.data.email) = {}
         \/ \E i \in RowsWithEmail(users, request.data.email) :
               ~CreatedWith(users[i], request.data.password) )
    => response = InvalidCredentials

\* A login with a stored email and a wrong password has been answered, while
\* another email is stored by no row.
C6_Witness ==
    /\ request.op = "login"
    /\ ~NoPassword(request.data)
    /\ \E i \in DOMAIN users :
         /\ users[i].email = GetEmail(request.data)
         /\ ~CreatedWith(users[i], request.data.password)
    /\ response.status = 401

\* The answer to a login with non-empty email and password, against the store.
LoginMatchesStore ==
    ( /\ request.op = "login"
      /\ ~NoEmailIn(request.data)
      /\ ~NoPassword(request.data) )
    => /\ ( response.status = 200 )
          <=> ( \E i \in DOMAIN users :
                  /\ users[i].email = request.data.email
                  /\ CreatedWith(users[i], request.data.password) )
       /\ response.status = 200
          => /\ response.body.status = "success"
             /\ response.body.user_id \in DOMAIN users
             /\ users[response.body.user_id].email = request.data.email
             /\ CreatedWith(users[response.body.user_id], request.data.password)
       /\ response.status # 200 => response.body.status = "failed"

\* C7: after any creates, updates and deletes, a login with non-empty email e
\* and password p returns 200 'success' exactly when a stored row has email e
\* and was created with p, and user_id is the id of that row.  The rows are
\* those the requests left: an update that changes a user's email leaves the
\* new email on that row alone and the old email on no row, and a delete
\* leaves the email of the deleted row on no row.
C7_LoginMatchesStore ==
    [][ /\ LoginMatchesStore'
        /\ ( /\ request'.op = "update_user"
              /\ response'.status = 200
              /\ request'.id \in DOMAIN users
              /\ ~NoEmailIn(request'.data)
              /\ request'.data.email # users[request'.id].email )
           => ( /\ RowsWithEmail(users', request'.data.email) = {request'.id}
                /\ RowsWithEmail(users', users[request'.id].email) = {}
                /\ users'[request'.id].password = users[request'.id].password )
        /\ ( /\ request'.op = "delete_user"
              /\ response'.status = 204 )
           => ( /\ request'.id \in DOMAIN users
                /\ RowsWithEmail(users', users[request'.id].email) = {} ) ]_vars

\* A login has succeeded for the only row left, after a delete and an update of
\* that row's name.
C7_Witness ==
    /\ request.op = "login"
    /\ response.status = 200
    /\ Cardinality(DOMAIN users) < seq
    /\ users[response.body.user_id].name = "Updated Name"

\* C8: a create whose JSON object lacks one of name, email, password, or holds
\* it empty, returns 400 with error kind 'Missing Data' and inserts no row.
C8_MissingFieldIsMissingData ==
    [][ ( /\ request'.op = "create_user"
          /\ \/ NoName(request'.data)
             \/ NoEmailIn(request'.data)
             \/ NoPassword(request'.data) )
        => ( /\ response'.status = 400
             /\ response'.body.error = "Missing Data"
             /\ users' = users ) ]_vars

\* C9: an update with a non-empty name or email for an id no stored row has
\* returns 404 with the bare body {"message": "User not found"} and leaves the
\* store unchanged, also when the email it sends is malformed.
C9_UpdateUnknownId ==
    [][ ( /\ request'.op = "update_user"
          /\ ~(NoName(request'.data) /\ NoEmailIn(request'.data))
          /\ request'.id \notin DOMAIN users )
        => ( /\ response' = [status |-> 404, body |-> [message |-> "User not found"]]
             /\ users' = users
             /\ seq' = seq ) ]_vars

\* An update with a malformed email for an id that is not stored got 404.
C9_Witness ==
    /\ request.op = "update_user"
    /\ request.id \notin DOMAIN users
    /\ ~NoEmailIn(request.data)
    /\ ~validate_email(GetEmail(request.data))
    /\ response.status = 404

\* C10: an update of a stored user that sends an email held by another stored
\* user returns 409 'Conflict' and changes no column of any row: a name sent
\* with it is not applied.
C10_UpdateConflictChangesNothing ==
    [][ ( /\ request'.op = "update_user"
          /\ request'.id \in DOMAIN users
          /\ ~NoEmailIn(request'.data)
          /\ RowsWithEmail(users, GetEmail(request'.data)) \ {request'.id} # {} )
        => ( /\ response'.status = 409
             /\ response'.body.error = "Conflict"
             /\ users' = users ) ]_vars

\* An update that sent another user's email and a new name got 409, and the
\* target row has the name it had.
C10_Witness ==
    /\ request.op = "update_user"
    /\ response.status = 409
    /\ ~NoName(request.data)
    /\ request.id \in DOMAIN users
    /\ users[request.id].name # request.data.name
    /\ RowsWithEmail(users, GetEmail(request.data)) \ {request.id} # {}

\* C11: whenever a statement on the store fails in list, get-by-id, search,
\* create, update, delete or login, the response is 500 with the two fields
\* `error` and `message` of the generic envelope, and no field of it is the
\* text of the error.
C11_NoErrorTextInResponses ==
    "fault" \in DOMAIN request =>
        /\ response.status = 500
        /\ DOMAIN response.body = {"error", "message"}
        /\ \A k \in DOMAIN response.body : response.body[k] # request.fault

\* The dictionary u of a response is a stored row reduced to its id, name and
\* email: it has these three keys and they hold these three columns.
PublicColumns(u) ==
    /\ DOMAIN u = {"id", "name", "email"}
    /\ u.id \in DOMAIN users
    /\ u.name = users[u.id].name
    /\ u.email = users[u.id].email

\* C12: after any sequence of requests to list, get-by-id, search, create,
\* update, delete and login, answered or failed, the response holds no
\* password: its text fields are no plaintext a client can submit, its numbers
\* are ids, and each row it shows is the id, name and email of a stored row
\* and nothing else, so no field holds a stored hash.
C12_NoPasswordInResponses ==
    /\ DOMAIN response.body \subseteq
           {"error", "message", "details", "status", "id", "user_id", "user", "users"}
    /\ \A k \in DOMAIN response.body \cap {"error", "message", "details", "status"} :
           response.body[k] \notin Passwords
    /\ \A k \in DOMAIN response.body \cap {"id", "user_id"} :
           response.body[k] \in DOMAIN users
    /\ "user" \in DOMAIN response.body => PublicColumns(response.body.user)
    /\ "users" \in DOMAIN response.body =>
           \A k \in DOMAIN response.body.users : PublicColumns(response.body.users[k])

\* The list of two stored users, each with a password hash, has been returned.
C12_Witness ==
    /\ request.op = "get_all_users"
    /\ response.status = 200
    /\ Len(response.body.users) = 2
    /\ \A i \in DOMAIN users : CreatedWith(users[i], "password")

\* C13: a create with a name, with a well-formed email that no stored row has,
\* and with a password shorter than 8 characters, 7 included, is answered 400
\* 'Weak Password' and inserts nothing; the same create with a password of 8
\* characters or more is answered 201 and inserts its row.
C13_PasswordThreshold ==
    [][ ( /\ request'.op = "create_user"
          /\ ~NoName(request'.data)
          /\ ~NoEmailIn(request'.data)
          /\ ~NoPassword(request'.data)
          /\ validate_email(request'.data.email)
          /\ RowsWithEmail(users, request'.data.email) = {} )
        => ( /\ Len(request'.data.password) <= 7 =>
                  /\ response'.status = 400
                  /\ response'.body.error = "Weak Password"
                  /\ users' = users
                  /\ seq' = seq
             /\ Len(request'.data.password) >= 8 =>
                  /\ response'.status = 201
                  /\ Cardinality(DOMAIN users') = Cardinality(DOMAIN users) + 1
                  /\ RowsWithEmail(users', request'.data.email) = {response'.body.id} ) ]_vars

\* A create with a password of 7 characters has been refused as weak, its
\* email free, while a row created with a password of 8 characters is stored
\* under the same name.
C13_Witness ==
    /\ request.op = "create_user"
    /\ Len(GetPassword(request.data)) = 7
    /\ response.status = 400
    /\ response.body.error = "Weak Password"
    /\ RowsWithEmail(users, request.data.email) = {}
    /\ \E i \in DOMAIN users :
          /\ users[i].name = request.data.name
          /\ CreatedWith(users[i], "password")

\* C14: across create, update and delete requests in any interleaving, a
\* successful create returns an id larger than every id assigned before it,
\* those of deleted rows included, and adds the row under that id leaving
\* every other row under its id; a delete removes the id it names and no other
\* step changes the set of ids; the largest id assigned never decreases.
C14_IdsIncreaseNeverReused ==
    [][ /\ DOMAIN users \subseteq 1 .. seq
        /\ seq' >= seq
        /\ IF served' # served /\ request'.op = "create_user" /\ response'.status = 201
           THEN /\ response'.body.id > seq
                /\ seq' = response'.body.id
                /\ DOMAIN users' = DOMAIN users \cup {response'.body.id}
                /\ \A i \in DOMAIN users : users'[i] = users[i]
           ELSE /\ seq' = seq
                /\ DOMAIN users' =
                      IF /\ served' # served
                         /\ request'.op = "delete_user"
                         /\ response'.status = 204
                      THEN DOMAIN users \ {request'.id}
                      ELSE DOMAIN users ]_vars

\* A create has just been given id 2 although no row has id 1: the user with
\* id 1, then the highest id, was deleted before this create.
C14_Witness ==
    /\ request.op = "create_user"
    /\ response.status = 201
    /\ response.body.id = 2
    /\ DOMAIN users = {2}

\* C15: an update of a stored user in which every value supplied, the name,
\* the email or both, is the value the row already has, is answered 200 with
\* the message of an update that found the user and changed nothing.
C15_IdenticalUpdateIsNoChange ==
    [][ ( /\ request'.op = "update_user"
          /\ request'.id \in DOMAIN users
          /\ ~(NoName(request'.data) /\ NoEmailIn(request'.data))
          /\ NoName(request'.data) \/ request'.data.name = users[request'.id].name
          /\ NoEmailIn(request'.data) \/ request'.data.email = users[request'.id].email )
        => ( /\ response'.status = 200
             /\ response'.body.message =
                  "User found, but no changes were applied (data was identical or no valid fields provided)." ) ]_vars

\* C16: an update answered 200 is an update of a stored row, and after it the
\* row has the name of the request if the request has a non-empty one and the
\* name it had otherwise, the same for the email, and the password hash it
\* had; the ids stored and every other row are as they were.
C16_UpdateChangesSuppliedColumnsOnly ==
    [][ ( /\ request'.op = "update_user"
          /\ response'.status = 200 )
        => ( /\ request'.id \in DOMAIN users
             /\ DOMAIN users' = DOMAIN users
             /\ seq' = seq
             /\ \A i \in DOMAIN users \ {request'.id} : users'[i] = users[i]
             /\ users'[request'.id].password = users[request'.id].password
             /\ users'[request'.id].name =
                  IF NoName(request'.data)
                  THEN users[request'.id].name
                  ELSE request'.data.name
             /\ users'[request'.id].email =
                  IF NoEmailIn(request'.data)
                  THEN users[request'.id].email
                  ELSE request'.data.email ) ]_vars

\* An update that supplied an empty name and a new email has succeeded on one
\* of two stored rows: the row has the email and still has a name.
C16_Witness ==
    /\ request.op = "update_user"
    /\ response.status = 200
    /\ response.body.message = "User updated successfully!"
    /\ GetName(request.data) = ""
    /\ ~NoEmailIn(request.data)
    /\ Cardinality(DOMAIN users) = 2
    /\ request.id \in DOMAIN users
    /\ users[request.id].email = request.data.email
    /\ users[request.id].name \in Names

\* C17: with requests handled concurrently, in every interleaving a valid
\* create is answered 201 when no row has its email at its INSERT, and then
\* exactly its row has the email, and 409 'Conflict' with the store unchanged
\* when a row has it: of two creates with one email the first gets 201 and the
\* second 409.  An update whose UPDATE statement sets an email that another
\* row has, a row created since its existence check included, changes nothing
\* and is not answered as an update made: it is answered 409 if its row is
\* still stored.  After every step no email is in two rows.
C17_ConcurrentSameEmail ==
    [][ /\ ( served' # served /\ request'.op = "create_user" ) =>
             IF RowsWithEmail(users, request'.data.email) = {}
             THEN /\ response'.status = 201
                  /\ RowsWithEmail(users', request'.data.email) = {response'.body.id}
             ELSE /\ response'.status = 409
                  /\ response'.body.error = "Conflict"
                  /\ users' = users
        /\ \A w \in Workers :
             ( /\ pending[w] # Idle
               /\ pending'[w] = Idle
               /\ ~NoEmailIn(pending[w].data)
               /\ EmailTaken(users, pending[w].data.email, {pending[w].id}) )
             => ( /\ users' = users
                  /\ response'.body # [message |-> "User updated successfully!"]
                  /\ pending[w].id \in DOMAIN users =>
                       /\ response'.status = 409
                       /\ response'.body.error = "Conflict" )
        /\ \A e \in {JohnEmail, JaneEmail} :
             Cardinality(RowsWithEmail(users', e)) <= 1 ]_vars

\* The second of two creates with one email has been answered 409 while an
\* update to the same email, of another row, is between its existence check
\* and its UPDATE statement; one row has the email.
C17_Witness ==
    /\ request.op = "create_user"
    /\ response.status = 409
    /\ Cardinality(RowsWithEmail(users, request.data.email)) = 1
    /\ \E w \in Workers :
          /\ pending[w] # Idle
          /\ GetEmail(pending[w].data) = request.data.email
          /\ pending[w].id \in DOMAIN users
          /\ pending[w].id \notin RowsWithEmail(users, request.data.email)

\* C18: in every interleaving of an update with deletes, the update is
\* answered 'User updated successfully!' only if its row is stored when its
\* UPDATE statement runs; if the row was deleted after the existence check,
\* the update is answered 200 with the no-changes message, not 404, and the
\* store is left as it is: the row is not created again.
C18_UpdateRacesDelete ==
    [][ \A w \in Workers :
          ( pending[w] # Idle /\ pending'[w] = Idle )
          => ( /\ response'.body = [message |-> "User updated successfully!"]
                    => pending[w].id \in DOMAIN users
               /\ pending[w].id \notin DOMAIN users
                    => /\ response'.status = 200
                       /\ response'.body =
                            [message |-> "User found, but no changes were applied (data was identical or no valid fields provided)."]
                       /\ users' = users ) ]_vars

\* An update has been answered 200 with the no-changes message and its row is
\* not stored: the row passed the existence check and was deleted before the
\* UPDATE statement.
C18_Witness ==
    /\ request.op = "update_user"
    /\ response.status = 200
    /\ response.body =
         [message |-> "User found, but no changes were applied (data was identical or no valid fields provided)."]
    /\ request.id \notin DOMAIN users
    /\ request.id <= seq

=============================================================================
